---- MODULE Spec2Model ----
(***************************************************************************)
(* Model of ArxivSpider (daily_arxiv/spiders/arxiv.py): the listing        *)
(* callback `parse`, the detail callback `parse_abs`, the deduplicating    *)
(* set `seen_ids`, the completion buffer `_buffer` and its release.        *)
(*                                                                         *)
(* The engine runs callbacks one at a time (single reactor thread) and,    *)
(* with CONCURRENT_REQUESTS = 1, downloads one request at a time.  The     *)
(* listing requests are taken from start_urls in list order; which of the  *)
(* scheduled requests is downloaded next (a detail request or the next     *)
(* listing) is left to the scheduler, hence a nondeterministic choice.     *)
(***************************************************************************)
EXTENDS Naturals, Sequences, FiniteSets

VARIABLES
    start_urls,         \* list of category codes whose listing is visited
    target_categories,  \* set(cats)
    next_start,         \* index in start_urls of the next listing to fetch
    seen_ids,           \* self.seen_ids
    requests,           \* every detail request yielded by parse, in order
    resolved,           \* indices of requests whose parse_abs has run
    buffer,             \* self._buffer
    yielded,            \* the items yielded by parse_abs, one batch per release
    visits,             \* per parsed listing: what parse met (history)
    abs_response,       \* the last response handed to parse_abs (history)
    site                \* which documents the crawled site serves

vars == <<start_urls, target_categories, next_start, seen_ids, requests,
          resolved, buffer, yielded, visits, abs_response, site>>

----------------------------------------------------------------------------
(* Bounds of the model *)

MaxCats == 2        \* length of the CATEGORIES list
MaxBlocks == 3      \* h3/dl blocks of a listing page
MaxEntries == 2     \* dt/dd pairs of a listing page

----------------------------------------------------------------------------
(* Identifiers are strings of the shape dddd.ddddd; they are modelled as    *)
(* the tuple of their nine digits, compared as Python compares strings.     *)

Id10 == <<2, 4, 0, 1, 0, 0, 0, 1, 0>>      \* "2401.00010"
Id02 == <<2, 4, 0, 1, 0, 0, 0, 0, 2>>      \* "2401.00002"
Id05 == <<2, 4, 0, 1, 0, 0, 0, 0, 5>>      \* "2401.00005"
Id99 == <<2, 3, 1, 2, 0, 0, 0, 9, 9>>      \* "2312.00099"
OldStyle == <<0, 6, 0, 1>>                 \* "/abs/math/0601..." : no match

Ids == {Id10, Id02, Id05, Id99}

StrLess(a, b) ==
    \/ \E k \in 1..Len(a) :
          /\ k <= Len(b)
          /\ \A j \in 1..(k - 1) : a[j] = b[j]
          /\ a[k] < b[k]
    \/ /\ Len(a) < Len(b)
       /\ \A j \in 1..Len(a) : a[j] = b[j]

----------------------------------------------------------------------------
(* list.sort(key=...) : a stable sort on one key.  Before(x, y, key) is     *)
(* "the key of x sorts strictly before the key of y"; elements with equal   *)
(* keys keep their order.                                                   *)

DefaultPriority == 99

CAT_PRIORITY(c) ==
    CASE c = "math.QA" -> 0
      [] c = "math.RT" -> 1
      [] OTHER -> DefaultPriority

IdBefore_asc(x, y) == StrLess(x.id, y.id)
IdBefore(x, y) == StrLess(y.id, x.id)               \* key id, reverse=True
SectionBefore(x, y) == x.section_rank < y.section_rank
PriorityBefore_desc(x, y) == x.cat_priority > y.cat_priority
PriorityBefore(x, y) == x.cat_priority < y.cat_priority
CatBefore(c, d) == CAT_PRIORITY(c) < CAT_PRIORITY(d)

Before(x, y, key) ==
    CASE key = "id" -> IdBefore(x, y)
      [] key = "section_rank" -> SectionBefore(x, y)
      [] key = "cat_priority" -> PriorityBefore(x, y)
      [] key = "category" -> CatBefore(x, y)

RECURSIVE Insert(_, _, _)
Insert(x, s, key) ==
    IF s = <<>> THEN <<x>>
    ELSE IF Before(x, Head(s), key) THEN <<x>> \o s
    ELSE <<Head(s)>> \o Insert(x, Tail(s), key)

RECURSIVE SortInto(_, _, _)
SortInto(rest, acc, key) ==
    IF rest = <<>> THEN acc
    ELSE SortInto(Tail(rest), Insert(Head(rest), acc, key), key)

StableSort(s, key) == SortInto(s, <<>>, key)

----------------------------------------------------------------------------
(* __init__ *)

Codes == {"math.QA", "math.RT", "cs.CV"}

SortCats(cats) == StableSort(cats, "category")

SeqRange(s) == {s[i] : i \in 1..Len(s)}

\* the CATEGORIES value, split at commas, stripped, blanks dropped
CategoryLists == UNION {[1..n -> Codes] : n \in 1..MaxCats}

----------------------------------------------------------------------------
(* Listing pages *)

Href(tail) == [kind |-> "abs", tail |-> tail]

\* a dt/dd pair: the Abstract link of the dt, the .list-subjects text of the dd
Entry(tail, subjects) == [href |-> Href(tail), subjects |-> subjects]

Entries == {
    Entry(Id10, <<"math.QA">>),
    Entry(Id02, <<"math.RT", "math.QA">>),
    Entry(Id99, <<>>),
    Entry(Id05, <<"math-ph", "math.AB">>),
    Entry(OldStyle, <<"math.QA">>) }

Headings == {"New submissions", "Cross submissions", "Replacement submissions",
             "Recent announcements"}

H3(text) == [tag |-> "h3", text |-> text]
DL(entries) == [tag |-> "dl", entries |-> entries]

Blocks == {H3(t) : t \in Headings} \cup {DL(<<e>>) : e \in Entries}

NumEntries(page) ==
    Cardinality({i \in 1..Len(page) : page[i].tag = "dl"})

\* the listing pages served: a heading after the last list changes nothing,
\* so the pages end with a list
AllPages ==
    {page \in UNION {[1..n -> Blocks] : n \in 0..MaxBlocks} :
        /\ NumEntries(page) <= MaxEntries
        /\ page # <<>> => page[Len(page)].tag = "dl"}

\* the listing pages of a site whose detail pages come in every shape
ShortPages == {page \in AllPages : Len(page) <= 1}

Pages(s) == IF s = "plain" THEN AllPages ELSE ShortPages

\* re.search(r"/abs/([0-9]{4}\.[0-9]{5})", abs_url)
MatchesId(href) == href.kind = "abs" /\ Len(href.tail) >= 9

\* re.findall(r"\(([a-z\-]+\.[A-Z]{2})\)", subjects_text)
CodeShaped(t) == t \in {"math.QA", "math.RT", "math.AB", "cs.CV"}
FindCodes(subjects) == {t \in SeqRange(subjects) : CodeShaped(t)}

\* the if/elif chain over the lower-cased heading
SectionOf(text) ==
    CASE text = "New submissions" -> [rank |-> 0, text |-> "new"]
      [] text = "Cross submissions" -> [rank |-> 1, text |-> "cross"]
      [] text = "Replacement submissions" -> [rank |-> 2, text |-> "repl"]
      [] OTHER -> [rank |-> 3, text |-> "other"]

MetaItem(id, section, subjects, cat_priority) ==
    [id |-> id,
     section |-> section.text,
     abs |-> <<"abs", id>>,
     pdf |-> <<"pdf", id>>,
     categories |-> IF subjects # <<>> THEN FindCodes(subjects) ELSE {},
     cat_priority |-> cat_priority,
     section_rank |-> section.rank]

\* the deduplication test of parse
AlreadySeen_never(id, seen) == FALSE
AlreadySeen(id, seen) == id \in seen

\* the inclusion test of parse
Included_always(subjects, target) == TRUE
Included(subjects, target) ==
    (FindCodes(subjects) \cap target # {}) \/ subjects = <<>>

\* one dt/dd pair of the inner loop; st = [seen, out]
ScanEntry(e, st, section, cat_priority, target) ==
    IF e.href.kind = "none" THEN st
    ELSE IF ~MatchesId(e.href) THEN st
    ELSE LET id == SubSeq(e.href.tail, 1, 9) IN
         IF AlreadySeen(id, st.seen) THEN st
         ELSE LET seen2 == st.seen \cup {id} IN
              IF Included(e.subjects, target)
              THEN [seen |-> seen2,
                    out |-> Append(st.out,
                              MetaItem(id, section, e.subjects, cat_priority))]
              ELSE [seen |-> seen2, out |-> st.out]

RECURSIVE ScanEntries(_, _, _, _, _)
ScanEntries(entries, st, section, cat_priority, target) ==
    IF entries = <<>> THEN st
    ELSE ScanEntries(Tail(entries),
                     ScanEntry(Head(entries), st, section, cat_priority, target),
                     section, cat_priority, target)

\* as ScanBlocks, but an unmatched heading keeps the section in force
RECURSIVE ScanBlocks_keep(_, _, _, _, _)
ScanBlocks_keep(blocks, st, section, cat_priority, target) ==
    IF blocks = <<>> THEN st
    ELSE LET b == Head(blocks) IN
         IF b.tag = "h3"
         THEN ScanBlocks_keep(Tail(blocks), st,
                              IF SectionOf(b.text).rank = 3 THEN section
                              ELSE SectionOf(b.text),
                              cat_priority, target)
         ELSE ScanBlocks_keep(Tail(blocks),
                              ScanEntries(b.entries, st, section, cat_priority, target),
                              section, cat_priority, target)

RECURSIVE ScanBlocks(_, _, _, _, _)
ScanBlocks(blocks, st, section, cat_priority, target) ==
    IF blocks = <<>> THEN st
    ELSE LET b == Head(blocks) IN
         IF b.tag = "h3"
         THEN ScanBlocks(Tail(blocks), st, SectionOf(b.text), cat_priority, target)
         ELSE ScanBlocks(Tail(blocks),
                         ScanEntries(b.entries, st, section, cat_priority, target),
                         section, cat_priority, target)

\* parse(response): the new seen_ids and the requests it yields
parse(page, source_cat, seen, target) ==
    ScanBlocks(page, [seen |-> seen, out |-> <<>>],
               [rank |-> 3, text |-> "other"], CAT_PRIORITY(source_cat), target)

\* the identifiers of the well-formed entries of a page
RECURSIVE PageIds(_)
PageIds(blocks) ==
    IF blocks = <<>> THEN {}
    ELSE LET b == Head(blocks) IN
         (IF b.tag = "dl"
          THEN {SubSeq(b.entries[i].href.tail, 1, 9) :
                    i \in {k \in 1..Len(b.entries) : MatchesId(b.entries[k].href)}}
          ELSE {})
         \cup PageIds(Tail(blocks))

\* the text of the last h3 before block k of a page ("none": no h3 before it)
LastHeading(page, k) ==
    LET before == {j \in 1..(k - 1) : page[j].tag = "h3"} IN
    IF before = {} THEN "none"
    ELSE page[CHOOSE j \in before : \A i \in before : i <= j].text

\* for each identifier of a page, the heading its first entry stands under
PageHeadings(page) ==
    [id \in PageIds(page) |->
        LET holds == {k \in 1..Len(page) :
                        /\ page[k].tag = "dl"
                        /\ id \in PageIds(<<page[k]>>)}
        IN  LastHeading(page, CHOOSE k \in holds : \A i \in holds : k <= i)]

----------------------------------------------------------------------------
(* Detail pages *)

VersionTags == {"v1", "v2", "v3"}
NoLink == "none"            \* no <link rel='canonical'>
NoTag == "untagged"         \* canonical href without a trailing vN

AllDocs == [canonical : {NoLink, NoTag, "v1", "v2"},
            h1 : {<<"Title">>, <<"Title", "v3">>}]

\* a detail page with no canonical link and no revision in its heading
PlainDoc == [canonical |-> NoLink, h1 |-> <<"Title">>]

DetailDocs(s) == IF s = "plain" THEN {PlainDoc} ELSE AllDocs

\* re.search(r"\b(v\d+)\b", h1): the first standalone tag of the heading
FirstTag(h1) ==
    LET hits == {i \in 1..Len(h1) : h1[i] \in VersionTags} IN
    IF hits = {} THEN "none"
    ELSE h1[CHOOSE i \in hits : \A j \in hits : i <= j]

\* the test that sends parse_abs on to the h1 heading
TryHeading(version) == version = "v1"

Version(doc) ==
    LET v0 == IF doc.canonical \in VersionTags THEN doc.canonical ELSE "v1"
    IN  IF TryHeading(v0) /\ FirstTag(doc.h1) # "none"
        THEN FirstTag(doc.h1) ELSE v0

----------------------------------------------------------------------------
(* The release of parse_abs *)

SortItems(items) ==
    StableSort(StableSort(StableSort(items, "id"), "section_rank"),
               "cat_priority")

\* it.pop("cat_priority"), it.pop("section_rank")
Strip_keep(it) == it
Strip(it) == [f \in DOMAIN it \ {"cat_priority", "section_rank"} |-> it[f]]

\* if len(self._buffer) >= len(self.seen_ids)
Complete_first(buf, seen) == Len(buf) >= 1
Complete(buf, seen) == Len(buf) >= Cardinality(seen)

----------------------------------------------------------------------------
InitSite(s) ==
    /\ site = s
    /\ \E categories \in CategoryLists :
          /\ start_urls = SortCats(categories)
          /\ target_categories = SeqRange(categories)
    /\ next_start = 1
    /\ seen_ids = {}
    /\ requests = <<>>
    /\ resolved = {}
    /\ buffer = <<>>
    /\ yielded = <<>>
    /\ visits = <<>>
    /\ abs_response = [index |-> 0]

Init == InitSite("plain")

InitRevision == InitSite("revised")

Unresolved == (1..Len(requests)) \ resolved

\* the next listing page is downloaded and handed to parse
Parse ==
    /\ next_start <= Len(start_urls)
    /\ \E page \in Pages(site) :
          LET r == parse(page, start_urls[next_start], seen_ids, target_categories)
          IN  /\ seen_ids' = r.seen
              /\ requests' = requests \o r.out
              /\ visits' = Append(visits,
                    [ids |-> PageIds(page),
                     entries |-> NumEntries(page),
                     headings |-> PageHeadings(page),
                     dispatched |-> Len(r.out),
                     outstanding |-> Cardinality(Unresolved)])
    /\ next_start' = next_start + 1
    /\ UNCHANGED <<start_urls, target_categories, resolved, buffer, yielded,
                   abs_response, site>>

\* a scheduled detail page is downloaded and handed to parse_abs
ParseAbs ==
    \E i \in Unresolved : \E doc \in DetailDocs(site) :
        LET item == [f \in DOMAIN requests[i] \cup {"version"} |->
                        IF f = "version" THEN Version(doc) ELSE requests[i][f]]
            buf == Append(buffer, item)
        IN  /\ resolved' = resolved \cup {i}
            /\ abs_response' = [index |-> i, doc |-> doc]
            /\ IF Complete(buf, seen_ids)
               THEN /\ LET items == SortItems(buf)
                        IN  yielded' = Append(yielded,
                                [k \in 1..Len(items) |-> Strip(items[k])])
                    /\ buffer' = <<>>
               ELSE /\ buffer' = buf
                    /\ UNCHANGED yielded
            /\ UNCHANGED <<start_urls, target_categories, next_start, seen_ids,
                           requests, visits, site>>

Next == Parse \/ ParseAbs

Spec == Init /\ [][Next]_vars

\* the same crawl of a site whose detail pages carry revisions
SpecRevision == InitRevision /\ [][Next]_vars

----------------------------------------------------------------------------
(* Observations of a run *)

RECURSIVE Flatten(_)
Flatten(batches) ==
    IF batches = <<>> THEN <<>> ELSE Head(batches) \o Flatten(Tail(batches))

\* everything the spider has emitted so far, in order
Output == Flatten(yielded)

\* every listing has been parsed and every detail request resolved
Done == next_start > Len(start_urls) /\ Unresolved = {}

IdsOf(items) == [k \in 1..Len(items) |-> items[k].id]

RequestIds == {requests[k].id : k \in 1..Len(requests)}

\* the request that carried an identifier (with its sort keys)
RequestOf(id) == requests[CHOOSE k \in 1..Len(requests) : requests[k].id = id]

Count(id, items) == Cardinality({k \in 1..Len(items) : items[k].id = id})

\* categories were visited one at a time: no listing was parsed while a
\* detail request was outstanding
Sequential == \A i \in 1..Len(visits) : visits[i].outstanding = 0

RECURSIVE DispatchedBefore(_)
DispatchedBefore(i) ==
    IF i <= 1 THEN 0 ELSE DispatchedBefore(i - 1) + visits[i - 1].dispatched

\* the identifiers dispatched by the i-th listing
VisitIds(i) ==
    {requests[k].id :
        k \in (DispatchedBefore(i) + 1)..(DispatchedBefore(i) + visits[i].dispatched)}

Dispatching == {i \in 1..Len(visits) : visits[i].dispatched > 0}

----------------------------------------------------------------------------
(* C1: end to end.  Categories [math.RT, math.QA], each listing with       *)
(* exactly one entry, in the New section, the two identifiers distinct,     *)
(* detail pages without revision: when the run is over, exactly two        *)
(* records were emitted, QA's entry then RT's entry, both with "v1".       *)

EndToEndCase ==
    /\ site = "plain"
    /\ start_urls = <<"math.QA", "math.RT">>
    /\ Len(visits) = 2
    /\ \A i \in 1..2 : visits[i].entries = 1 /\ Cardinality(visits[i].ids) = 1
    /\ visits[1].ids # visits[2].ids
    /\ Len(requests) = 2
    /\ \A k \in 1..2 : requests[k].section = "new"

C1_EndToEnd ==
    (EndToEndCase /\ Done) =>
        /\ Len(Output) = 2
        /\ Output[1].id \in visits[1].ids
        /\ Output[2].id \in visits[2].ids
        /\ \A k \in 1..2 : Output[k].version = "v1"

(* C2: the final release.  When every listing is parsed and every          *)
(* dispatched detail request has been resolved, the buffer is empty and    *)
(* every resolved record has been emitted.                                 *)

C2_FinalRelease ==
    Done => (buffer = <<>> /\ Len(Output) = Cardinality(resolved))

(* C3: one release per category.  In a run that visited the categories     *)
(* one at a time (no listing parsed while a detail request was             *)
(* outstanding), there is one release for each listing that dispatched a   *)
(* stub, and the k-th release holds the records of the k-th such listing.  *)

C3_ReleasePerCategory ==
    (Done /\ Sequential) =>
        /\ Len(yielded) = Cardinality(Dispatching)
        /\ \A k \in 1..Len(yielded) : \E i \in Dispatching :
              /\ Cardinality({j \in Dispatching : j <= i}) = k
              /\ {yielded[k][n].id : n \in 1..Len(yielded[k])} = VisitIds(i)

(* C4: determinism.  The listings are parsed in the order of start_urls    *)
(* in every run, so seen_ids and the requests do not depend on the         *)
(* schedule; the emitted sequence of a finished run equals the one of the  *)
(* run that parses every listing first and then resolves the requests in   *)
(* the order they were dispatched, whatever the interleaving was.          *)

ReferenceOutputIds ==
    IF Len(requests) > 0 /\ Complete(requests, seen_ids)
    THEN IdsOf(SortItems(requests))
    ELSE <<>>

C4_Deterministic == Done => IdsOf(Output) = ReferenceOutputIds

(* C5: cross-category order.  Along the whole emitted sequence, a record   *)
(* sourced from a listing of lower priority rank is never preceded by a    *)
(* record sourced from a listing of higher rank.                           *)

C5_CategoryOrder ==
    \A i, j \in 1..Len(Output) :
        RequestOf(Output[i].id).cat_priority < RequestOf(Output[j].id).cat_priority
            => i < j

C5_Witness ==
    \E i, j \in 1..Len(Output) :
        RequestOf(Output[i].id).cat_priority < RequestOf(Output[j].id).cat_priority

(* C6: batch sort order.  Every release emits exactly the buffered         *)
(* records (the one just appended included), ordered lexicographically by  *)
(* category priority ascending, section rank ascending, identifier         *)
(* descending.                                                             *)

LexBefore(a, b) ==
    \/ a.cat_priority < b.cat_priority
    \/ /\ a.cat_priority = b.cat_priority
       /\ a.section_rank < b.section_rank
    \/ /\ a.cat_priority = b.cat_priority
       /\ a.section_rank = b.section_rank
       /\ StrLess(b.id, a.id)

C6_BatchSorted ==
    [][Len(yielded') > Len(yielded) =>
        LET batch == yielded'[Len(yielded')]
            last == requests[abs_response'.index]
        IN  /\ Len(batch) = Len(buffer) + 1
            /\ {batch[k] : k \in 1..Len(batch)} =
                  {Strip(buffer[k]) : k \in 1..Len(buffer)}
                  \cup {r \in {batch[k] : k \in 1..Len(batch)} : r.id = last.id}
            /\ \E k \in 1..Len(batch) : batch[k].id = last.id
            /\ \A k, l \in 1..Len(batch) :
                  k < l => LexBefore(RequestOf(batch[k].id), RequestOf(batch[l].id))
      ]_vars

C6_Witness ==
    \E b \in 1..Len(yielded) :
        /\ Len(yielded[b]) >= 3
        /\ \E k, l \in 1..Len(yielded[b]) :
              /\ k # l
              /\ RequestOf(yielded[b][k].id).cat_priority =
                     RequestOf(yielded[b][l].id).cat_priority
              /\ RequestOf(yielded[b][k].id).section_rank =
                     RequestOf(yielded[b][l].id).section_rank
        /\ \E k, l \in 1..Len(yielded[b]) :
              RequestOf(yielded[b][k].id).cat_priority #
                  RequestOf(yielded[b][l].id).cat_priority

(* C7: cross-listed entries.  An identifier found in the listings of two   *)
(* different target categories (and passing the category filter) has been  *)
(* emitted exactly once when the run is over, with the section and the     *)
(* category priority of the first listing it was found in.                 *)

FirstVisit(id) ==
    CHOOSE i \in 1..Len(visits) :
        id \in visits[i].ids /\ \A j \in 1..(i - 1) : id \notin visits[j].ids

CrossListed ==
    {id \in RequestIds :
        \E i, j \in 1..Len(visits) :
            /\ start_urls[i] # start_urls[j]
            /\ id \in visits[i].ids \cap visits[j].ids}

C7_CrossListedOnce ==
    Done => \A id \in CrossListed :
        /\ Count(id, Output) = 1
        /\ RequestOf(id).cat_priority = CAT_PRIORITY(start_urls[FirstVisit(id)])
        /\ \A k \in 1..Len(Output) :
              Output[k].id = id => Output[k].section = RequestOf(id).section

(* C8: deduplication.  A listing scan never removes an identifier from     *)
(* seen_ids, dispatches requests only for identifiers that were not in     *)
(* seen_ids before the scan, adds each of them to seen_ids, and no two     *)
(* requests dispatched in the run carry the same identifier.               *)

C8_Dedup ==
    [][/\ seen_ids \subseteq seen_ids'
       /\ \A k \in (Len(requests) + 1)..Len(requests') :
             requests'[k].id \notin seen_ids /\ requests'[k].id \in seen_ids'
       /\ \A k, l \in 1..Len(requests') :
             requests'[k].id = requests'[l].id => k = l
      ]_vars

C8_Witness ==
    /\ Len(requests) >= 2
    /\ \E i, j \in 1..Len(visits) :
          i < j /\ visits[i].ids \cap visits[j].ids \cap RequestIds # {}

(* C9: the release threshold counts the dispatched stubs: the number of    *)
(* identifiers in seen_ids equals the number of detail requests that have  *)
(* been dispatched.                                                        *)

C9_ThresholdCountsDispatched == Cardinality(seen_ids) = Len(requests)

(* C10: revision resolution, first success wins: the revision of a record  *)
(* is the tag of the canonical link when it has one, else the first        *)
(* standalone tag of the heading when it has one, else "v1".               *)

FirstSuccess(doc) ==
    IF doc.canonical \in VersionTags THEN doc.canonical
    ELSE IF FirstTag(doc.h1) # "none" THEN FirstTag(doc.h1)
    ELSE "v1"

\* the records made from the last response handed to parse_abs
LastRecords ==
    {r \in {buffer[k] : k \in 1..Len(buffer)} \cup {Output[k] : k \in 1..Len(Output)} :
        r.id = requests[abs_response.index].id}

C10_FirstSuccessWins ==
    abs_response.index # 0 =>
        /\ LastRecords # {}
        /\ \A r \in LastRecords : r.version = FirstSuccess(abs_response.doc)

(* C11: target-category filter.  An entry whose subject text yields a      *)
(* non-empty set of codes, none of them a target category, is never        *)
(* dispatched to parse_abs and never appears in the output.                *)

\* the subject text the listings show for an identifier (every listing shows
\* the same text for the same paper)
SubjectsOf(id) ==
    (CHOOSE e \in Entries : MatchesId(e.href) /\ SubSeq(e.href.tail, 1, 9) = id).subjects

OffTarget(id) ==
    /\ FindCodes(SubjectsOf(id)) # {}
    /\ FindCodes(SubjectsOf(id)) \cap target_categories = {}

Listed == UNION {visits[i].ids : i \in 1..Len(visits)}

C11_FilterOmits ==
    \A id \in Listed :
        OffTarget(id) =>
            /\ id \notin RequestIds
            /\ \A k \in 1..Len(Output) : Output[k].id # id

C11_Witness ==
    /\ \E id \in Listed : OffTarget(id)
    /\ Len(Output) >= 1

(* C12: fail-open.  When the run is over, every listed entry with a        *)
(* well-formed identifier and no subject text has been dispatched with an  *)
(* empty list of declared categories and its record is in the output.      *)

C12_FailOpen ==
    Done => \A id \in Listed :
        SubjectsOf(id) = <<>> =>
            /\ id \in RequestIds
            /\ RequestOf(id).categories = {}
            /\ \E k \in 1..Len(Output) : Output[k].id = id

(* C13: no emitted record has a cat_priority or a section_rank field.      *)

C13_KeysStripped ==
    \A k \in 1..Len(Output) :
        DOMAIN Output[k] \cap {"cat_priority", "section_rank"} = {}

C13_Witness ==
    /\ Len(yielded) >= 1
    /\ Len(yielded[1]) >= 2
    /\ \A k \in 1..Len(Output) : "version" \in DOMAIN Output[k]

(* C14: startup ordering.  start_urls holds every category of the input    *)
(* list exactly once and is sorted by non-decreasing priority rank, every  *)
(* code absent from the override table after every override code.          *)

Overridden(c) == c \in {"math.QA", "math.RT"}

C14_StartupOrder ==
    /\ SeqRange(start_urls) = target_categories
    /\ \A c \in target_categories :
          Cardinality({i \in 1..Len(start_urls) : start_urls[i] = c}) = 1
    /\ \A i, j \in 1..Len(start_urls) :
          i < j => CAT_PRIORITY(start_urls[i]) <= CAT_PRIORITY(start_urls[j])
    /\ \A i, j \in 1..Len(start_urls) :
          (Overridden(start_urls[i]) /\ ~Overridden(start_urls[j]))
              => (i < j /\ CAT_PRIORITY(start_urls[i]) < CAT_PRIORITY(start_urls[j]))

(* C15: a release fires only when nothing is outstanding: a parse_abs      *)
(* step that releases a batch leaves no dispatched request unresolved.     *)

C15_ReleaseWhenIdle ==
    [][Len(yielded') > Len(yielded) => (1..Len(requests')) \ resolved' = {}]_vars

C15_Witness ==
    /\ Len(yielded) >= 1
    /\ Len(requests) >= 2
    /\ \E i \in 1..Len(visits) : visits[i].outstanding > 0

(* C16: categories do not overlap.  The listings are parsed in             *)
(* non-decreasing priority order, and no listing is parsed while a detail  *)
(* request dispatched from an earlier listing is unresolved.               *)

C16_NoOverlap ==
    /\ \A i, j \in 1..Len(visits) :
          i < j => CAT_PRIORITY(start_urls[i]) <= CAT_PRIORITY(start_urls[j])
    /\ \A i \in 1..Len(visits) : visits[i].outstanding = 0

(* C18: counting.  After every step the buffered and the emitted records   *)
(* together are at most len(seen_ids) and carry pairwise distinct          *)
(* identifiers; a step that releases leaves the buffer empty and adds      *)
(* each buffered record (and the one just appended) to the output once.    *)

Held(buf, out) == [k \in 1..(Len(buf) + Len(out)) |->
                      IF k <= Len(buf) THEN buf[k].id ELSE out[k - Len(buf)].id]

C18_Counting ==
    [][LET held == Held(buffer', Flatten(yielded')) IN
        /\ Len(held) <= Cardinality(seen_ids')
        /\ \A k, l \in 1..Len(held) : held[k] = held[l] => k = l
        /\ Len(yielded') > Len(yielded) =>
              /\ buffer' = <<>>
              /\ Len(yielded') = Len(yielded) + 1
              /\ \A k \in 1..Len(buffer) :
                    Count(buffer[k].id, yielded'[Len(yielded')]) = 1
              /\ Len(yielded'[Len(yielded')]) = Len(buffer) + 1
      ]_vars

C18_Witness ==
    /\ buffer = <<>>
    /\ Len(yielded) = 1
    /\ Len(yielded[1]) >= 2
    /\ Cardinality(seen_ids) = Len(yielded[1])

(* C17: section tagging.  Every dispatched stub carries the section of     *)
(* the most recent heading before its list block: new/0, cross/1, repl/2,  *)
(* and other/3 when no heading precedes it or the most recent heading      *)
(* matches none of the phrases, whatever the headings before that one.     *)

Tagged(heading, item) ==
    CASE heading = "New submissions" ->
            item.section = "new" /\ item.section_rank = 0
      [] heading = "Cross submissions" ->
            item.section = "cross" /\ item.section_rank = 1
      [] heading = "Replacement submissions" ->
            item.section = "repl" /\ item.section_rank = 2
      [] OTHER ->
            item.section = "other" /\ item.section_rank = 3

C17_SectionTagging ==
    \A i \in 1..Len(visits) : \A id \in VisitIds(i) :
        Tagged(visits[i].headings[id], RequestOf(id))

\* a stub under an unmatched heading, and one with no heading before it
C17_Witness ==
    /\ \E i \in 1..Len(visits) : \E id \in VisitIds(i) :
          visits[i].headings[id] = "Recent announcements"
    /\ \E i \in 1..Len(visits) : \E id \in VisitIds(i) :
          visits[i].headings[id] = "none"
    /\ \E i \in 1..Len(visits) : \E id \in VisitIds(i) :
          visits[i].headings[id] = "Replacement submissions"

====
